---- MODULE Spec2Model ----
(***************************************************************************)
(* tiny-flow: a dataflow graph of nodes (tinyflow/ops.py) with Kahn's      *)
(* topological sort and a forward/backward evaluator (tinyflow/core.py).   *)
(*                                                                         *)
(* A node is a natural number, its position in the order of construction.  *)
(* A Python value is None (the empty tuple) or an integer v (the tuple     *)
(* <<v>>); a Python dict is a function whose domain is its key set.        *)
(***************************************************************************)
EXTENDS Integers, Sequences, FiniteSets

VARIABLES
    typname,        \* node -> class name                       (ops.py:26)
    inbound_nodes,  \* node -> list of operands                 (ops.py:13)
    outbound_nodes, \* node -> list of consumers                (ops.py:14,29)
    value,          \* node -> None or <<v>>                    (ops.py:21)
    gradients,      \* node -> dict operand -> gradient         (ops.py:25)
    pc,             \* the statement about to run
    entry,          \* the function the caller entered
    node,           \* value_and_grad's argument node
    feed_dict,      \* value_and_grad's argument feed_dict
    input_nodes,    \* topological_sort's argument
    G,              \* topological_sort's local G
    nodes,          \* topological_sort's local nodes (the discovery queue)
    S,              \* topological_sort's local S
    L,              \* topological_sort's local L; value_and_grad's nodes
    i,              \* position of the running for loop of value_and_grad
    forwarded,      \* nodes whose forward ran in this call
    backwarded,     \* nodes whose backward ran in this call
    ret,            \* what the last call returned or raised
    prev            \* the previous topological_sort call and its result

vars == <<typname, inbound_nodes, outbound_nodes, value, gradients, pc, entry,
          node, feed_dict, input_nodes, G, nodes, S, L, i, forwarded,
          backwarded, ret, prev>>

graph == <<typname, inbound_nodes, outbound_nodes>>
sort_locals == <<input_nodes, G, nodes, S, L>>
eval_locals == <<node, feed_dict, i, forwarded, backwarded>>

\* ------------------------------------------------------------------ bounds

\* Feed values of the general specification are 0..MaxVal.
MaxVal == 1
\* Feed values of the test_mul specification are 1..MaxMulVal.
MaxMulVal == 2
\* The sort specification builds every graph of at most MaxNodes nodes.
MaxNodes == 3

\* ----------------------------------------------------------------- values

None == <<>>
EmptyDict == <<>>

Range(s) == {s[k] : k \in DOMAIN s}

RECURSIVE SetToSeq(_)
\* The elements of a set of nodes, in increasing order.
SetToSeq(s) ==
    IF s = {} THEN <<>>
    ELSE LET m == CHOOSE x \in s : \A y \in s : x <= y
         IN  <<m>> \o SetToSeq(s \ {m})

Reverse(s) == [k \in 1..Len(s) |-> s[Len(s) + 1 - k]]

\* The result of a statement that may raise.
Ok(x) == [err |-> "", out |-> x]
Raise(e) == [err |-> e, out |-> None]

\* ----------------------------------------------------- graph construction

RECURSIVE RegisterOutbound(_, _, _)
\* ops.py:28-29: for node in self.inbound_nodes: node.outbound_nodes.append(self)
RegisterOutbound(out, inb, self) ==
    IF inb = <<>> THEN out
    ELSE RegisterOutbound([out EXCEPT ![Head(inb)] = Append(@, self)],
                          Tail(inb), self)

\* ops.py:12-29: Node.__init__ on the heap h of the nodes built so far.
Node__init__(h, typ, inb) ==
    LET self == Len(h.typname) + 1
    IN  [typname        |-> Append(h.typname, typ),
         inbound_nodes  |-> Append(h.inbound_nodes, inb),
         outbound_nodes |-> RegisterOutbound(Append(h.outbound_nodes, <<>>),
                                             inb, self),
         value          |-> Append(h.value, None),
         gradients      |-> Append(h.gradients, EmptyDict)]

\* The constructor calls a program makes, as records.
Input == [typname |-> "Input", inbound_nodes |-> <<>>]
Add(x, y) == [typname |-> "Add", inbound_nodes |-> <<x, y>>]
Mul(x, y) == [typname |-> "Mul", inbound_nodes |-> <<x, y>>]
MockGrad(x) == [typname |-> "MockGrad", inbound_nodes |-> <<x>>]

EmptyHeap == [typname |-> <<>>, inbound_nodes |-> <<>>, outbound_nodes |-> <<>>,
              value |-> <<>>, gradients |-> <<>>]

RECURSIVE Construct(_, _)
\* Runs the constructor calls of prog, in order, on heap h.
Construct(h, prog) ==
    IF prog = <<>> THEN h
    ELSE Construct(Node__init__(h, Head(prog).typname, Head(prog).inbound_nodes),
                   Tail(prog))

\* The constructor calls possible when k nodes exist: operands are nodes that
\* exist already, so every graph built is acyclic.
Ctors(k) ==
    {Input}
    \cup {Add(x, y) : x \in 1..k, y \in 1..k}
    \cup {MockGrad(x) : x \in 1..k}

RECURSIVE ProgramsOfLen(_)
ProgramsOfLen(n) ==
    IF n = 0 THEN {<<>>}
    ELSE {Append(p, c) : p \in ProgramsOfLen(n - 1), c \in Ctors(n - 1)}

\* Every program of 1..MaxNodes constructor calls (Mul wires its operands as
\* Add does, so Add stands for both here).
SortPrograms == UNION {ProgramsOfLen(n) : n \in 1..MaxNodes}

\* tests.py:25-33: x, y, z, g = Mul(x, y), h = Mul(x, z), f = Add(g, h),
\* mock = MockGrad(f).
TestMulProgram == <<Input, Input, Input, Mul(1, 2), Mul(1, 3), Add(4, 5), MockGrad(6)>>

\* The graphs of the specification whose calls may leave Input nodes unfed.
SmallPrograms ==
    { <<Input, MockGrad(1)>>,
      <<Input, Input, Add(1, 2)>>,
      <<Input, Input, Add(1, 2), MockGrad(3)>>,
      <<Input, Mul(1, 1), MockGrad(2)>>,
      <<Input, MockGrad(1), Add(2, 1)>> }

\* The graphs of the general specification: those, a graph whose terminal is
\* an operation, and a graph with a node that has two consumers.
Programs ==
    SmallPrograms \cup
    { <<Input, Input, Add(1, 2), Mul(3, 2)>>,
      <<Input, Input, Mul(1, 2), Add(3, 1), MockGrad(4)>> }

Nodes == DOMAIN typname
Inputs == {n \in Nodes : typname[n] = "Input"}
\* The nodes a feed dictionary has keys for (core.py:50-51, tests.py:36).
Feedable == {n \in Nodes : typname[n] \in {"Input", "MockGrad"}}

\* ------------------------------------------------------- topological_sort

\* core.py:20,23: G[n] = {'in': set(), 'out': set()}
NewEntry(g, n) ==
    [k \in DOMAIN g \cup {n} |-> IF k = n THEN [in |-> {}, out |-> {}] ELSE g[k]]

RECURSIVE DiscoverEdges(_, _, _, _)
\* core.py:21-26: the for loop over n.outbound_nodes, on G = g and nodes = q.
DiscoverEdges(g, q, n, ms) ==
    IF ms = <<>> THEN [G |-> g, nodes |-> q]
    ELSE LET m  == Head(ms)
             g1 == IF m \in DOMAIN g THEN g ELSE NewEntry(g, m)
             g2 == [g1 EXCEPT ![n].out = @ \cup {m}]
             g3 == [g2 EXCEPT ![m].in = @ \cup {n}]
         IN  DiscoverEdges(g3, Append(q, m), n, Tail(ms))

RECURSIVE RemoveEdges(_, _, _, _)
\* core.py:33-38: the for loop over n.outbound_nodes, on G = g and S = s;
\* set.remove raises KeyError when the element is not in the set.
RemoveEdges(g, s, n, ms) ==
    IF ms = <<>> THEN Ok([G |-> g, S |-> s])
    ELSE LET m == Head(ms)
         IN  IF m \notin g[n].out THEN Raise("KeyError")
             ELSE IF n \notin g[m].in THEN Raise("KeyError")
             ELSE LET g1 == [g EXCEPT ![n].out = @ \ {m}]
                      g2 == [g1 EXCEPT ![m].in = @ \ {n}]
                      s1 == IF g2[m].in = {} THEN s \cup {m} ELSE s
                  IN  RemoveEdges(g2, s1, n, Tail(ms))

\* core.py:31: S.pop() removes and returns an arbitrary element of the set
\* (the order of a set of objects follows their hashes, which are memory
\* addresses): the elements it may return.
Pop(s) == s

\* ------------------------------------------------------ node operations

\* core.py:64: isinstance(n, ForwardNode). core.py:4-7 imports the class from
\* tinyflow.ops, and ops.py defines no class of that name; by the
\* specification it is the Input nodes that take the externally fed value.
IsForwardNode(n) == typname[n] = "Input"

\* core.py:72: isinstance(n, BackwardNode), imported likewise and defined
\* nowhere; by the specification it is the gradient-seed nodes (MockGrad)
\* that take the externally fed gradient.
IsBackwardNode(n) == typname[n] = "MockGrad"

\* Python's x + y and x * y on values: None is no operand of either.
PyAdd(x, y) == IF x = None \/ y = None THEN Raise("TypeError") ELSE Ok(<<x[1] + y[1]>>)
PyMul(x, y) == IF x = None \/ y = None THEN Raise("TypeError") ELSE Ok(<<x[1] * y[1]>>)

\* ops.py:78-79: Input.forward sets self.value to the node's entry of the
\* feed; core.py:65-66 has looked the entry up already and passes it as v.
Input_forward(self, v) == Ok(<<v>>)

\* ops.py:59-60: MockGrad.forward
MockGrad_forward(self, val) == Ok(val[inbound_nodes[self][1]])

\* ops.py:93-95: Add.forward
Add_forward(self, val) ==
    PyAdd(val[inbound_nodes[self][1]], val[inbound_nodes[self][2]])

\* ops.py:114-116: Mul.forward
Mul_forward(self, val) ==
    PyMul(val[inbound_nodes[self][1]], val[inbound_nodes[self][2]])

\* n.forward() by the class of n; the base class raises (ops.py:32-39).
forward(n, val) ==
    CASE typname[n] = "Add" -> Add_forward(n, val)
      [] typname[n] = "Mul" -> Mul_forward(n, val)
      [] typname[n] = "MockGrad" -> MockGrad_forward(n, val)
      [] OTHER -> Raise("NotImplementedError")

\* core.py:64-68: one forward step of node n under feed fd.
ForwardOf(n, fd, val) ==
    IF IsForwardNode(n)
    THEN IF n \in DOMAIN fd THEN Input_forward(n, fd[n]) ELSE Raise("KeyError")
    ELSE forward(n, val)

\* ops.py:62-64: MockGrad.backward gives every operand the node's entry of
\* the feed; core.py:73-74 has looked the entry up already and passes it as g.
MockGrad_backward(self, grad) == Ok([k \in Range(inbound_nodes[self]) |-> grad])

RECURSIVE Input_backward_loop(_, _, _, _)
\* ops.py:83-84: the loop over self.outbound_nodes; node.gradients[self]
\* raises KeyError when the consumer holds no entry for self.
Input_backward_loop(self, d, cs, grads) ==
    IF cs = <<>> THEN Ok(d)
    ELSE IF self \notin DOMAIN grads[Head(cs)] THEN Raise("KeyError")
    ELSE Input_backward_loop(self, [d EXCEPT ![self] = @ + grads[Head(cs)][self]],
                             Tail(cs), grads)

\* A slip: the consumers' entries are added to what the last call left.
Input_backward_Stale(self, grads) ==
    Input_backward_loop(self,
        [k \in {self} |-> IF self \in DOMAIN grads[self] THEN grads[self][self] ELSE 0],
        outbound_nodes[self], grads)

\* A slip: only the last consumer's entry is kept.
Input_backward_Last(self, grads) ==
    LET cs == outbound_nodes[self]
    IN  IF cs = <<>> THEN Ok([k \in {self} |-> 0])
        ELSE Input_backward_loop(self, [k \in {self} |-> 0], <<cs[Len(cs)]>>, grads)

\* ops.py:81-84: Input.backward
Input_backward(self, grads) ==
    Input_backward_loop(self, [k \in {self} |-> 0], outbound_nodes[self], grads)

RECURSIVE Add_backward_loop(_, _, _, _)
\* ops.py:99-105
Add_backward_loop(self, d, cs, grads) ==
    IF cs = <<>> THEN Ok(d)
    ELSE IF self \notin DOMAIN grads[Head(cs)] THEN Raise("KeyError")
    ELSE LET grad == grads[Head(cs)][self]
             x    == inbound_nodes[self][1]
             y    == inbound_nodes[self][2]
             d1   == [d EXCEPT ![x] = @ + 1 * grad]
             d2   == [d1 EXCEPT ![y] = @ + 1 * grad]
         IN  Add_backward_loop(self, d2, Tail(cs), grads)

\* ops.py:97-105: Add.backward
Add_backward(self, grads) ==
    Add_backward_loop(self, [k \in Range(inbound_nodes[self]) |-> 0],
                      outbound_nodes[self], grads)

RECURSIVE Mul_backward_loop(_, _, _, _, _)
\* ops.py:120-125
Mul_backward_loop(self, d, cs, val, grads) ==
    IF cs = <<>> THEN Ok(d)
    ELSE IF self \notin DOMAIN grads[Head(cs)] THEN Raise("KeyError")
    ELSE LET grad == grads[Head(cs)][self]
             x    == inbound_nodes[self][1]
             y    == inbound_nodes[self][2]
             gx   == PyMul(val[y], <<grad>>)
             gy   == PyMul(val[x], <<grad>>)
         IN  IF gx.err # "" THEN gx
             ELSE IF gy.err # "" THEN gy
             ELSE LET d1 == [d EXCEPT ![x] = @ + gx.out[1]]
                      d2 == [d1 EXCEPT ![y] = @ + gy.out[1]]
                  IN  Mul_backward_loop(self, d2, Tail(cs), val, grads)

\* ops.py:118-125: Mul.backward
Mul_backward(self, val, grads) ==
    Mul_backward_loop(self, [k \in Range(inbound_nodes[self]) |-> 0],
                      outbound_nodes[self], val, grads)

\* n.backward() by the class of n; the base class raises (ops.py:41-50).
backward(n, val, grads) ==
    CASE typname[n] = "Input" -> Input_backward(n, grads)
      [] typname[n] = "Add" -> Add_backward(n, grads)
      [] typname[n] = "Mul" -> Mul_backward(n, val, grads)
      [] OTHER -> Raise("NotImplementedError")

\* core.py:72-76: one backward step of node n under feed fd.
BackwardOf(n, fd, val, grads) ==
    IF IsBackwardNode(n)
    THEN IF n \in DOMAIN fd THEN MockGrad_backward(n, fd[n]) ELSE Raise("KeyError")
    ELSE backward(n, val, grads)

\* ------------------------------------------------------------ the calls

\* What a call left: status is "returned" or the exception raised, at the
\* statement that ended the call; value is the value returned
\* (topological_sort: the list), grads the gradient list returned.
NoRet == [status |-> "none", at |-> "", value |-> None, grads |-> <<>>]
Raised(e, where) == [status |-> e, at |-> where, value |-> None, grads |-> <<>>]
NoPrev == [called |-> FALSE, input_nodes |-> <<>>, L |-> <<>>]

\* The call is over and its frame is gone.
Idle(r) ==
    /\ pc' = "idle"
    /\ ret' = r
    /\ entry' = ""
    /\ node' = 0
    /\ feed_dict' = EmptyDict
    /\ input_nodes' = <<>>
    /\ G' = EmptyDict
    /\ nodes' = <<>>
    /\ S' = {}
    /\ L' = <<>>
    /\ i' = 0
    /\ forwarded' = {}
    /\ backwarded' = {}

Values == 0..MaxVal

\* The feed dictionaries of a call that feeds every Input node: the keys
\* are the Input nodes and any of the MockGrad nodes.
FeedDicts ==
    UNION {[K -> Values] : K \in {K \in SUBSET Feedable : Inputs \subseteq K}}

\* The feed dictionaries of a call that may leave Input nodes unfed.
AnyFeedDicts == UNION {[K -> Values] : K \in SUBSET Feedable}

\* core.py:59: input_nodes = [n for n in feed_dict]; the caller inserts the
\* keys in the order the nodes were built (tests.py:36).
DictKeys(fd) == SetToSeq(DOMAIN fd)

\* The caller calls value_and_grad(n, fd, wrt).
Call(n, fd) ==
    /\ pc = "idle"
    /\ pc' = "enter"
    /\ entry' = "value_and_grad"
    /\ node' = n
    /\ feed_dict' = fd
    /\ ret' = NoRet
    /\ UNCHANGED <<graph, value, gradients, sort_locals, i, forwarded, backwarded, prev>>

\* A slip: the terminal node is not checked.
TerminalIsSink_Unchecked(n) == TRUE

\* core.py:54: assert node.outbound_nodes == []
TerminalIsSink(n) == outbound_nodes[n] = <<>>

\* core.py:54-60 and 15-16: the assertion, then input_nodes and the entry
\* of topological_sort.
Enter ==
    /\ pc = "enter"
    /\ IF TerminalIsSink(node)
       THEN /\ pc' = "discover"
            /\ input_nodes' = DictKeys(feed_dict)
            /\ G' = EmptyDict
            /\ nodes' = DictKeys(feed_dict)
            /\ UNCHANGED <<entry, eval_locals, S, L, ret>>
       ELSE Idle(Raised("AssertionError", "enter"))
    /\ UNCHANGED <<graph, value, gradients, prev>>

\* The caller calls topological_sort(ins) itself (core.py:15-16).
CallSort(ins) ==
    /\ pc = "idle"
    /\ pc' = "discover"
    /\ entry' = "topological_sort"
    /\ input_nodes' = ins
    /\ G' = EmptyDict
    /\ nodes' = ins
    /\ ret' = NoRet
    /\ UNCHANGED <<graph, value, gradients, eval_locals, S, L, prev>>

\* core.py:17-26: one turn of the discovery loop.
Discover ==
    /\ pc = "discover"
    /\ nodes # <<>>
    /\ LET n  == Head(nodes)
           g  == IF n \in DOMAIN G THEN G ELSE NewEntry(G, n)
           r  == DiscoverEdges(g, Tail(nodes), n, outbound_nodes[n])
       IN  /\ G' = r.G
           /\ nodes' = r.nodes
    /\ UNCHANGED <<graph, value, gradients, pc, entry, eval_locals, input_nodes, S, L,
                   ret, prev>>

\* core.py:28-29: L = [], S = set(input_nodes)
BeginSort ==
    /\ pc = "discover"
    /\ nodes = <<>>
    /\ pc' = "sort"
    /\ L' = <<>>
    /\ S' = Range(input_nodes)
    /\ UNCHANGED <<graph, value, gradients, entry, eval_locals, input_nodes, G, nodes,
                   ret, prev>>

\* core.py:30-38: one turn of the sorting loop.
SortStep ==
    /\ pc = "sort"
    /\ S # {}
    /\ \E n \in Pop(S) :
          LET r == RemoveEdges(G, S \ {n}, n, outbound_nodes[n])
          IN  IF r.err = ""
              THEN /\ L' = Append(L, n)
                   /\ G' = r.out.G
                   /\ S' = r.out.S
                   /\ UNCHANGED <<pc, entry, eval_locals, input_nodes, nodes, ret>>
              ELSE Idle(Raised(r.err, "sort"))
    /\ UNCHANGED <<graph, value, gradients, prev>>

\* core.py:39: return L, to the caller of topological_sort.
SortReturn ==
    /\ pc = "sort"
    /\ S = {}
    /\ entry = "topological_sort"
    /\ Idle([status |-> "returned", at |-> "sort", value |-> L, grads |-> <<>>])
    /\ prev' = [called |-> TRUE, input_nodes |-> input_nodes, L |-> L]
    /\ UNCHANGED <<graph, value, gradients>>

\* core.py:39 and 60: return L, to value_and_grad, which names it nodes.
Sorted ==
    /\ pc = "sort"
    /\ S = {}
    /\ entry = "value_and_grad"
    /\ pc' = "forward"
    /\ i' = 1
    /\ UNCHANGED <<graph, value, gradients, entry, node, feed_dict, forwarded,
                   backwarded, sort_locals, ret, prev>>

\* core.py:63-68: one turn of the forward loop.
ForwardStep ==
    /\ pc = "forward"
    /\ i <= Len(L)
    /\ LET r == ForwardOf(L[i], feed_dict, value)
       IN  IF r.err = ""
           THEN /\ value' = [value EXCEPT ![L[i]] = r.out]
                /\ i' = i + 1
                /\ forwarded' = forwarded \cup {L[i]}
                /\ UNCHANGED <<pc, entry, node, feed_dict, backwarded, sort_locals, ret>>
           ELSE /\ Idle(Raised(r.err, "forward"))
                /\ UNCHANGED value
    /\ UNCHANGED <<graph, gradients, prev>>

\* A slip: the backward loop runs in forward order.
BackwardOrder_Forward(l) == l

\* core.py:71: nodes[::-1]
BackwardOrder(l) == Reverse(l)

\* core.py:71: the forward loop is over and the backward loop begins.
BeginBackward ==
    /\ pc = "forward"
    /\ i > Len(L)
    /\ pc' = "backward"
    /\ i' = 1
    /\ UNCHANGED <<graph, value, gradients, entry, node, feed_dict, forwarded,
                   backwarded, sort_locals, ret, prev>>

\* core.py:71-76: one turn of the backward loop.
BackwardStep ==
    /\ pc = "backward"
    /\ i <= Len(L)
    /\ LET n == BackwardOrder(L)[i]
           r == BackwardOf(n, feed_dict, value, gradients)
       IN  IF r.err = ""
           THEN /\ gradients' = [gradients EXCEPT ![n] = r.out]
                /\ i' = i + 1
                /\ backwarded' = backwarded \cup {n}
                /\ UNCHANGED <<pc, entry, node, feed_dict, forwarded, sort_locals, ret>>
           ELSE /\ Idle(Raised(r.err, "backward"))
                /\ UNCHANGED gradients
    /\ UNCHANGED <<graph, value, prev>>

\* The backward loop is over: the return statement is next.
EndBackward ==
    /\ pc = "backward"
    /\ i > Len(L)
    /\ pc' = "return"
    /\ UNCHANGED <<graph, value, gradients, entry, eval_locals, sort_locals, ret, prev>>

\* The lists a caller passes as wrt: none, one node, two nodes, the Input
\* nodes in the order they were built (tests.py:38).
WrtLists ==
    {<<>>, SetToSeq(Inputs)}
    \cup {<<a>> : a \in Nodes}
    \cup {<<a, b>> : a \in Nodes, b \in Nodes}

\* core.py:78: return node.value, [n.gradients[n] for n in wrt], on the
\* values val and the gradients grads; n.gradients[n] raises KeyError when
\* the node holds no entry for itself.
ResultOf(nd, val, grads, w) ==
    IF \E k \in DOMAIN w : w[k] \notin DOMAIN grads[w[k]]
    THEN Raised("KeyError", "return")
    ELSE [status |-> "returned", at |-> "return", value |-> val[nd],
          grads |-> [k \in DOMAIN w |-> grads[w[k]][w[k]]]]

Result(w) == ResultOf(node, value, gradients, w)

\* core.py:57 and 78: wrt is read by the return statement alone, so the
\* argument is drawn where it is read.
Return ==
    /\ pc = "return"
    /\ \E w \in WrtLists : Idle(Result(w))
    /\ UNCHANGED <<graph, value, gradients, prev>>

\* ------------------------------------------------------ specifications

Built(prog) ==
    LET h == Construct(EmptyHeap, prog)
    IN  /\ typname = h.typname
        /\ inbound_nodes = h.inbound_nodes
        /\ outbound_nodes = h.outbound_nodes
        /\ value = h.value
        /\ gradients = h.gradients

NoCall ==
    /\ pc = "idle"
    /\ entry = ""
    /\ node = 0
    /\ feed_dict = EmptyDict
    /\ input_nodes = <<>>
    /\ G = EmptyDict
    /\ nodes = <<>>
    /\ S = {}
    /\ L = <<>>
    /\ i = 0
    /\ forwarded = {}
    /\ backwarded = {}
    /\ ret = NoRet
    /\ prev = NoPrev

\* Any number of value_and_grad calls, each feeding every Input node, on one
\* of the graphs of Programs.
Init == \E prog \in Programs : Built(prog) /\ NoCall

Next ==
    \/ \E n \in Nodes, fd \in FeedDicts : Call(n, fd)
    \/ Enter
    \/ Discover
    \/ BeginSort
    \/ SortStep
    \/ Sorted
    \/ ForwardStep
    \/ BeginBackward
    \/ BackwardStep
    \/ EndBackward
    \/ Return

Spec == Init /\ [][Next]_vars

\* Any number of value_and_grad calls, with any of the feedable nodes as the
\* keys of the feed, on one of the graphs of SmallPrograms.
InitAnyFeed == \E prog \in SmallPrograms : Built(prog) /\ NoCall

NextAnyFeed ==
    \/ \E n \in Nodes, fd \in AnyFeedDicts : Call(n, fd)
    \/ Enter
    \/ Discover
    \/ BeginSort
    \/ SortStep
    \/ Sorted
    \/ ForwardStep
    \/ BeginBackward
    \/ BackwardStep
    \/ EndBackward
    \/ Return

SpecAnyFeed == InitAnyFeed /\ [][NextAnyFeed]_vars

\* Any number of topological_sort calls on a graph of at most MaxNodes nodes.
InitSort == \E prog \in SortPrograms : Built(prog) /\ NoCall

NextSort ==
    \/ \E K \in SUBSET Feedable : CallSort(SetToSeq(K))
    \/ Discover
    \/ BeginSort
    \/ SortStep
    \/ SortReturn

SpecSort == InitSort /\ [][NextSort]_vars

\* tests.py:36: the feed of test_mul, with the seed 0.5 as the unit of the
\* gradients (the seed 1 stands for 0.5).
TestMulFeed == [n \in {1, 2, 3, 7} |-> CASE n = 1 -> 3 [] n = 2 -> 4 [] n = 3 -> -5 [] n = 7 -> 1]

MulFeeds == [{1, 2, 3, 7} -> 1..MaxMulVal] \cup {TestMulFeed}

\* tests.py:23-38: test_mul builds its graph and calls value_and_grad once.
InitMul ==
    /\ Built(TestMulProgram)
    /\ pc = "enter"
    /\ entry = "value_and_grad"
    /\ node = 7
    /\ feed_dict \in MulFeeds
    /\ input_nodes = <<>>
    /\ G = EmptyDict
    /\ nodes = <<>>
    /\ S = {}
    /\ L = <<>>
    /\ i = 0
    /\ forwarded = {}
    /\ backwarded = {}
    /\ ret = NoRet
    /\ prev = NoPrev

NextMul ==
    \/ Enter
    \/ Discover
    \/ BeginSort
    \/ SortStep
    \/ Sorted
    \/ ForwardStep
    \/ BeginBackward
    \/ BackwardStep
    \/ EndBackward
    \/ Return

SpecMul == InitMul /\ [][NextMul]_vars

\* ------------------------------------------------------------- claims

RECURSIVE Closure(_)
\* The nodes reachable from the set ns along outbound_nodes.
Closure(ns) ==
    LET more == ns \cup UNION {Range(outbound_nodes[n]) : n \in ns}
    IN  IF more = ns THEN ns ELSE Closure(more)

\* The keys of a feed dictionary as the tests write it: Input nodes, and
\* MockGrad nodes that are sinks.
TestKeys(ins) ==
    \A k \in DOMAIN ins :
        \/ typname[ins[k]] = "Input"
        \/ typname[ins[k]] = "MockGrad" /\ outbound_nodes[ins[k]] = <<>>

\* C1: in the list topological_sort returns for the keys of a feed
\* dictionary, every occurrence of a consumer comes after an occurrence of
\* each of its discovered producers.
C1_OperandsFirst ==
    (prev.called /\ TestKeys(prev.input_nodes)) =>
        \A p \in Closure(Range(prev.input_nodes)) :
            \A c \in Range(outbound_nodes[p]) :
                \A j \in DOMAIN prev.L :
                    prev.L[j] = c => \E k \in 1..(j - 1) : prev.L[k] = p

\* C2: the list topological_sort returns for the keys of a feed dictionary
\* holds every node reachable from them, each exactly once.
C2_EachReachableOnce ==
    (prev.called /\ TestKeys(prev.input_nodes)) =>
        /\ Range(prev.L) = Closure(Range(prev.input_nodes))
        /\ Len(prev.L) = Cardinality(Range(prev.L))

\* C8: topological_sort, called with a set of Input nodes, never raises: a
\* turn of its sorting loop is followed by another turn or by the return.
C8_SortNeverRaises ==
    [][(pc = "sort" /\ Range(input_nodes) \subseteq Inputs)
          => ret'.status \in {"none", "returned"}]_vars

RECURSIVE StableVisit(_, _, _)
\* One node leaves the ready queue q: each of its consumers ms loses an
\* inbound edge and joins the end of q when it has none left.
StableVisit(indeg, q, ms) ==
    IF ms = <<>> THEN [indeg |-> indeg, q |-> q]
    ELSE LET m == Head(ms)
             d == indeg[m] - 1
         IN  StableVisit([indeg EXCEPT ![m] = d],
                         IF d = 0 THEN Append(q, m) ELSE q, Tail(ms))

RECURSIVE StableLoop(_, _, _)
StableLoop(indeg, q, l) ==
    IF q = <<>> THEN l
    ELSE LET r == StableVisit(indeg, Tail(q), outbound_nodes[Head(q)])
         IN  StableLoop(r.indeg, r.q, Append(l, Head(q)))

\* Kahn's algorithm with the ready nodes taken in stable insertion order:
\* the input nodes in the order given, then each node as it became ready.
StableSort(ins) ==
    StableLoop([m \in Nodes |->
                   Cardinality({p \in Closure(Range(ins)) : m \in Range(outbound_nodes[p])})],
               ins, <<>>)

\* C10: topological_sort takes the ready nodes in stable insertion order,
\* so the list it is about to return for Input nodes is the one that order
\* gives, and the one the previous call with these input_nodes returned.
C10_StableOrder ==
    (pc = "sort" /\ S = {} /\ Range(input_nodes) \subseteq Inputs) =>
        /\ L = StableSort(input_nodes)
        /\ (prev.called /\ prev.input_nodes = input_nodes) => L = prev.L

RECURSIVE FreshForward(_, _, _)
\* The forward pass over the nodes k, k+1, ... in the order they were built.
FreshForward(k, fd, val) ==
    IF k > Len(typname) THEN Ok(val)
    ELSE LET r == ForwardOf(k, fd, val)
         IN  IF r.err # "" THEN r
             ELSE FreshForward(k + 1, fd, [val EXCEPT ![k] = r.out])

RECURSIVE FreshBackward(_, _, _, _)
\* The backward pass over the nodes k, k-1, ... 1.
FreshBackward(k, fd, val, grads) ==
    IF k = 0 THEN Ok(grads)
    ELSE LET r == BackwardOf(k, fd, val, grads)
         IN  IF r.err # "" THEN r
             ELSE FreshBackward(k - 1, fd, val, [grads EXCEPT ![k] = r.out])

\* What value_and_grad(nd, fd, w) returns on a graph just built (no value,
\* no gradients), its nodes sorted in the order they were built.
Fresh(nd, fd, w) ==
    LET f == FreshForward(1, fd, [n \in Nodes |-> None])
    IN  IF f.err # "" THEN Raised(f.err, "forward")
        ELSE LET b == FreshBackward(Len(typname), fd, f.out, [n \in Nodes |-> EmptyDict])
             IN  IF b.err # "" THEN Raised(b.err, "backward")
                 ELSE ResultOf(nd, f.out, b.out, w)

C6_NonSinkRaisesFirst ==
    [][(pc = "enter" /\ outbound_nodes[node] # <<>>)
          => /\ pc' = "idle"
             /\ ret'.status = "AssertionError"
             /\ value' = value
             /\ gradients' = gradients]_vars

\* The call on a node with consumers has raised, on a graph that an earlier
\* call had evaluated.
C6_Witness ==
    /\ pc = "idle"
    /\ ret.status = "AssertionError"
    /\ \E n \in Nodes : value[n] # None /\ gradients[n] # EmptyDict

====
